---- MODULE Spec2Model ----
(***************************************************************************)
(* Attack-path / blast-radius analysis engine of CloudIntelligence          *)
(* (backend/app/services/security/attack_path.py, AttackPathAnalyzer).      *)
(*                                                                          *)
(* The in-memory graph is a networkx DiGraph: nodes keep their insertion    *)
(* order, every node carries an attribute dictionary, and every node has    *)
(* an ordered adjacency list.  Identifiers are strings, modelled as         *)
(* sequences of symbols so that string formatting is concatenation and      *)
(* iterating a string yields its one-symbol strings.  Risk scores are the   *)
(* source's whole-number floats, kept as integers.                          *)
(***************************************************************************)
EXTENDS Integers, Sequences, FiniteSets, TLC

VARIABLES
    graph,      \* self.graph of the analyzer
    accounts,   \* rows of the cloud_accounts table
    neo4j,      \* the durable graph store behind neo4j_client
    result,     \* outcome of the last operation (return value or exception)
    runs,       \* the build_attack_graph coroutines of concurrent requests
    loop,       \* the coroutine the event loop is running, if any
    log         \* the calls and durable-store queries made so far, in order

vars == <<graph, accounts, neo4j, result, runs, loop, log>>

----------------------------------------------------------------------------
(* Bounds of the model *)

MaxEdges == 3        \* edges of an enumerated query graph
MaxHops == 1         \* hop limits 0..MaxHops are tried besides the default
MaxLimit == 3        \* limits 0..MaxLimit of get_high_risk_nodes
MaxArgNodes == 2     \* nodes of a graph whose ids are tried as arguments
MaxAccounts == 2     \* rows of the cloud_accounts table
MaxRelCopies == 2    \* parallel relationships between two durable nodes
MaxEmitted == 2      \* length of a drawn node list or edge list

(* Program constants *)

DefaultMaxPathLength == 5
TopPaths == 20
DefaultLimit == 10
SegmentationThreshold == 10
ZeroTrustThreshold == 20

----------------------------------------------------------------------------
(* Sequences *)

Range(s) == {s[i] : i \in 1..Len(s)}

RECURSIVE Flatten(_)
Flatten(ss) == IF ss = <<>> THEN <<>> ELSE Head(ss) \o Flatten(Tail(ss))

Prefix(s, n) == IF n >= Len(s) THEN s ELSE SubSeq(s, 1, n)

RECURSIVE SumSeq(_)
SumSeq(s) == IF s = <<>> THEN 0 ELSE Head(s) + SumSeq(Tail(s))

MaxOf(S) == CHOOSE m \in S : \A x \in S : x <= m

\* the elements of s in the order of their first occurrence
FirstOccurrences(s) ==
    LET firsts == SelectSeq([i \in 1..Len(s) |-> i],
                            LAMBDA i : \A j \in 1..(i - 1) : s[j] # s[i])
    IN  [k \in 1..Len(firsts) |-> s[firsts[k]]]

----------------------------------------------------------------------------
(* Identifiers.  None and the empty string are both falsy in Python. *)

NoneId == <<>>

\* set(target): the one-symbol strings of a string
CharsOf(id) == {<<id[i]>> : i \in 1..Len(id)}

----------------------------------------------------------------------------
(* networkx.DiGraph *)

NoAttrs ==
    [present |-> FALSE, type |-> "", name |-> "", account_id |-> <<>>,
     region |-> "", risk_score |-> 0, criticality |-> ""]

\* nodes in insertion order; data[i] and adj[i] belong to nodes[i]; adj[i] lists the
\* out-edges of nodes[i] in insertion order, each with its attributes
EmptyGraph == [nodes |-> <<>>, data |-> <<>>, adj |-> <<>>]

NodeSet(G) == Range(G.nodes)

IndexOf(G, id) == CHOOSE i \in 1..Len(G.nodes) : G.nodes[i] = id

\* G.nodes[id]
NodeData(G, id) == G.data[IndexOf(G, id)]

\* G[id]: the successors of id in insertion order
Successors(G, id) ==
    LET out == G.adj[IndexOf(G, id)] IN [k \in 1..Len(out) |-> out[k].to]

EdgeSet(G) ==
    UNION {{<<G.nodes[i], G.adj[i][k].to>> : k \in 1..Len(G.adj[i])} : i \in 1..Len(G.nodes)}

\* node ids in insertion order whose criticality is one of crits
NodesWithCriticality(G, crits) ==
    SelectSeq(G.nodes, LAMBDA n : NodeData(G, n).criticality \in crits)

----------------------------------------------------------------------------
(* networkx.all_simple_paths(G, source, target, cutoff) *)

\* paths found below the last node of path, over its remaining successors
RECURSIVE SimplePathsFrom(_, _, _, _, _)
SimplePathsFrom(G, path, children, targets, cutoff) ==
    IF children = <<>> THEN <<>>
    ELSE LET c == Head(children)
             visited == Range(path)
             here ==
                 IF c \in visited THEN <<>>
                 ELSE (IF c \in targets THEN <<Append(path, c)>> ELSE <<>>)
                      \o (IF Len(path) < cutoff /\ (targets \ (visited \cup {c})) # {}
                          THEN SimplePathsFrom(G, Append(path, c), Successors(G, c), targets, cutoff)
                          ELSE <<>>)
         IN  here \o SimplePathsFrom(G, path, Tail(children), targets, cutoff)

AllSimplePaths(G, source, target, cutoff, trivial) ==
    IF source \notin NodeSet(G)
    THEN [raised |-> TRUE, exc |-> "NodeNotFound", paths |-> <<>>]
    ELSE LET targets == IF target \in NodeSet(G) THEN {target} ELSE CharsOf(target)
             found ==
                 IF trivial
                 THEN IF cutoff >= 0 /\ targets # {}
                      THEN (IF source \in targets THEN << <<source>> >> ELSE <<>>)
                           \o (IF 0 < cutoff /\ (targets \ {source}) # {}
                               THEN SimplePathsFrom(G, <<source>>, Successors(G, source), targets, cutoff)
                               ELSE <<>>)
                      ELSE <<>>
                 ELSE IF source \in targets \/ cutoff < 1
                      THEN <<>>
                      ELSE SimplePathsFrom(G, <<source>>, Successors(G, source), targets, cutoff)
         IN  [raised |-> FALSE, exc |-> "", paths |-> found]

----------------------------------------------------------------------------
(* list.sort(key=..., reverse=True): stable, equal keys keep their order.   *)
(* The items are records [k |-> key, v |-> value].                          *)

\* Variant of SortDesc that leaves equal keys in reverse order
SortDescTiesReversed(s) ==
    LET keys == {s[i].k : i \in 1..Len(s)}
        rank(i) == Cardinality({j \in 1..Len(s) : s[j].k > s[i].k \/ (s[j].k = s[i].k /\ j > i)})
    IN  [p \in 1..Len(s) |-> s[CHOOSE i \in 1..Len(s) : rank(i) = p - 1]]

RECURSIVE SortDesc(_)
SortDesc(s) ==
    IF s = <<>> THEN <<>>
    ELSE LET m == MaxOf({s[i].k : i \in 1..Len(s)})
         IN  SelectSeq(s, LAMBDA x : x.k = m) \o SortDesc(SelectSeq(s, LAMBDA x : x.k # m))

\* Python slice s[:n], n possibly negative
SliceTo(s, n) ==
    IF n >= 0 THEN Prefix(s, n)
    ELSE IF Len(s) + n <= 0 THEN <<>> ELSE SubSeq(s, 1, Len(s) + n)

----------------------------------------------------------------------------
(* AttackPathAnalyzer._path_to_attack_path *)

\* Variant of HighValue that holds the critical tier only
HighValueCriticalOnly == {"critical"}

HighValue == {"high", "critical"}

\* self.graph[source][target] made an AttackEdge
EdgeOf(G, source, target) ==
    LET out == G.adj[IndexOf(G, source)]
        edge_data == out[CHOOSE k \in 1..Len(out) : out[k].to = target]
    IN  [source_id |-> source, target_id |-> target,
         type |-> edge_data.type, weight |-> edge_data.weight]

\* Variant of PathToAttackPath whose path_length counts the nodes of the path
PathToAttackPathCountingNodes(G, path) ==
    [nodes |-> path,
     edges |-> [i \in 1..(Len(path) - 1) |-> EdgeOf(G, path[i], path[i + 1])],
     total_risk |-> SumSeq([i \in 1..Len(path) |-> NodeData(G, path[i]).risk_score]),
     path_length |-> Len(path),
     critical_nodes |-> SelectSeq(path, LAMBDA n : NodeData(G, n).criticality \in HighValue)]

\* Variant of PathToAttackPath that averages the risk over the nodes of the path
PathToAttackPathAveraged(G, path) ==
    [nodes |-> path,
     edges |-> [i \in 1..(Len(path) - 1) |-> EdgeOf(G, path[i], path[i + 1])],
     total_risk |-> SumSeq([i \in 1..Len(path) |-> NodeData(G, path[i]).risk_score])
                        \div Len(path),
     path_length |-> Len(path) - 1,
     critical_nodes |-> SelectSeq(path, LAMBDA n : NodeData(G, n).criticality \in HighValue)]

PathToAttackPath(G, path) ==
    [nodes |-> path,
     edges |-> [i \in 1..(Len(path) - 1) |-> EdgeOf(G, path[i], path[i + 1])],
     total_risk |-> SumSeq([i \in 1..Len(path) |-> NodeData(G, path[i]).risk_score]),
     path_length |-> Len(path) - 1,
     critical_nodes |-> SelectSeq(path, LAMBDA n : NodeData(G, n).criticality \in HighValue)]

\* node_data['type'] raises KeyError on a node that has no attributes
ConvertPaths(G, r) ==
    IF r.raised THEN r
    ELSE IF \E i \in 1..Len(r.paths) : \E n \in Range(r.paths[i]) : ~NodeData(G, n).present
    THEN [raised |-> TRUE, exc |-> "KeyError", paths |-> <<>>]
    ELSE [raised |-> FALSE, exc |-> "",
          paths |-> [i \in 1..Len(r.paths) |-> PathToAttackPath(G, r.paths[i])]]

\* Variant of PathsBetween that does not pass the hop limit: cutoff=None makes
\* the library search up to len(G) - 1 hops
PathsBetweenNoCutoff(G, source, target, max_path_length, trivial) ==
    ConvertPaths(G, AllSimplePaths(G, source, target, Len(G.nodes) - 1, trivial))

\* one search: nx.all_simple_paths(self.graph, source=..., target=...,
\* cutoff=max_path_length) and the conversion of every path it yields
PathsBetween(G, source, target, max_path_length, trivial) ==
    ConvertPaths(G, AllSimplePaths(G, source, target, max_path_length, trivial))

\* the loop over (source, target) pairs: the first exception leaves the loop
RECURSIVE SearchPairs(_, _, _, _)
SearchPairs(G, pairs, cutoff, trivial) ==
    IF pairs = <<>> THEN [raised |-> FALSE, exc |-> "", paths |-> <<>>]
    ELSE LET r == PathsBetween(G, pairs[1][1], pairs[1][2], cutoff, trivial)
         IN  IF r.raised THEN r
             ELSE LET rest == SearchPairs(G, Tail(pairs), cutoff, trivial)
                  IN  IF rest.raised THEN rest
                      ELSE [raised |-> FALSE, exc |-> "", paths |-> r.paths \o rest.paths]

----------------------------------------------------------------------------
(* AttackPathAnalyzer.find_attack_paths *)

\* Variant of CriticalPairs that also pairs every critical node with itself
CriticalPairsWithSelf(crit) ==
    Flatten([i \in 1..Len(crit) |->
                [d \in 1..(Len(crit) - i + 1) |-> <<crit[i], crit[i + d - 1]>>]])

\* the (i, j), i < j, double loop over the critical nodes
CriticalPairs(crit) ==
    Flatten([i \in 1..Len(crit) |->
                [d \in 1..(Len(crit) - i) |-> <<crit[i], crit[i + d]>>]])

\* Variant of SearchedPairs that honours a target given without a source: it searches
\* from every critical node to that target
SearchedPairsTargetOnly(G, source_node_id, target_node_id) ==
    IF source_node_id # NoneId /\ target_node_id # NoneId
    THEN << <<source_node_id, target_node_id>> >>
    ELSE IF source_node_id # NoneId
    THEN LET high_value_nodes == NodesWithCriticality(G, HighValue)
         IN  [i \in 1..Len(high_value_nodes) |-> <<source_node_id, high_value_nodes[i]>>]
    ELSE IF target_node_id # NoneId
    THEN LET critical_nodes == NodesWithCriticality(G, {"critical"})
         IN  [i \in 1..Len(critical_nodes) |-> <<critical_nodes[i], target_node_id>>]
    ELSE CriticalPairs(NodesWithCriticality(G, {"critical"}))

\* Variant of SearchedPairs that falls back to the high-value targets when the given
\* target is no node of the graph
SearchedPairsKnownTarget(G, source_node_id, target_node_id) ==
    IF source_node_id # NoneId /\ target_node_id \in NodeSet(G)
    THEN << <<source_node_id, target_node_id>> >>
    ELSE IF source_node_id # NoneId
    THEN LET high_value_nodes == NodesWithCriticality(G, HighValue)
         IN  [i \in 1..Len(high_value_nodes) |-> <<source_node_id, high_value_nodes[i]>>]
    ELSE CriticalPairs(NodesWithCriticality(G, {"critical"}))

\* Variant of SearchedPairs whose source-only mode targets the critical nodes only
SearchedPairsCriticalOnly(G, source_node_id, target_node_id) ==
    IF source_node_id # NoneId /\ target_node_id # NoneId
    THEN << <<source_node_id, target_node_id>> >>
    ELSE IF source_node_id # NoneId
    THEN LET high_value_nodes == NodesWithCriticality(G, {"critical"})
         IN  [i \in 1..Len(high_value_nodes) |-> <<source_node_id, high_value_nodes[i]>>]
    ELSE CriticalPairs(NodesWithCriticality(G, {"critical"}))

\* the (source, target) pairs searched in each of the three modes
SearchedPairs(G, source_node_id, target_node_id) ==
    IF source_node_id # NoneId /\ target_node_id # NoneId
    THEN << <<source_node_id, target_node_id>> >>
    ELSE IF source_node_id # NoneId
    THEN LET high_value_nodes == NodesWithCriticality(G, HighValue)
         IN  [i \in 1..Len(high_value_nodes) |-> <<source_node_id, high_value_nodes[i]>>]
    ELSE CriticalPairs(NodesWithCriticality(G, {"critical"}))

\* Variant of SortPaths that leaves the candidates in search order
SortPathsOmitted(paths) == paths

\* paths.sort(key=total_risk, reverse=True)
SortPaths(paths) ==
    LET keyed == [i \in 1..Len(paths) |-> [k |-> paths[i].total_risk, v |-> paths[i]]]
        sorted == SortDesc(keyed)
    IN  [i \in 1..Len(sorted) |-> sorted[i].v]

\* return paths[:20]
TopOf(paths) == Prefix(paths, TopPaths)

FindAttackPathsOf(G, source_node_id, target_node_id, max_path_length, trivial) ==
    LET r == SearchPairs(G, SearchedPairs(G, source_node_id, target_node_id),
                         max_path_length, trivial)
    IN  IF r.raised
        THEN [op |-> "find", status |-> "raise", exc |-> r.exc,
              source |-> source_node_id, target |-> target_node_id,
              cutoff |-> max_path_length, trivial |-> trivial,
              candidates |-> <<>>, paths |-> <<>>]
        ELSE [op |-> "find", status |-> "ok", exc |-> "",
              source |-> source_node_id, target |-> target_node_id,
              cutoff |-> max_path_length, trivial |-> trivial,
              candidates |-> r.paths,
              paths |-> TopOf(SortPaths(r.paths))]

----------------------------------------------------------------------------
(* networkx.descendants(G, source): breadth-first search, source excluded *)

RECURSIVE BfsReach(_, _, _)
BfsReach(G, seen, frontier) ==
    IF frontier = {} THEN seen
    ELSE LET next == (UNION {Range(Successors(G, n)) : n \in frontier}) \ seen
         IN  BfsReach(G, seen \cup next, next)

Descendants(G, source) == BfsReach(G, {source}, {source}) \ {source}

\* Variant of ReachableFrom that takes the direct successors only
ReachableFromSuccessors(G, node) == Range(Successors(G, node))

\* reachable = nx.descendants(self.graph, node)
ReachableFrom(G, node) == Descendants(G, node)

----------------------------------------------------------------------------
(* AttackPathAnalyzer._generate_blast_radius_recommendations *)

\* Variant of BlastRadiusRecommendations whose size thresholds are inclusive
BlastRadiusRecommendationsInclusive(G, node_id, reachable) ==
    LET node_data == NodeData(G, node_id)
        byType ==
            IF node_data.type = "iam_role"
            THEN IF node_data.criticality = "critical"
                 THEN <<"least_privilege", "conditional_policies", "access_analyzer">>
                 ELSE <<>>
            ELSE IF node_data.type = "ec2_instance"
            THEN IF Cardinality(reachable) >= SegmentationThreshold
                 THEN <<"restrict_instance_profile", "private_subnet", "network_segmentation">>
                 ELSE <<>>
            ELSE IF node_data.type = "s3_bucket"
            THEN <<"block_public_access", "bucket_policies", "access_logging">>
            ELSE <<>>
        bySize ==
            IF Cardinality(reachable) >= ZeroTrustThreshold
            THEN <<"zero_trust", "cross_service_permissions", "just_in_time_access">>
            ELSE <<>>
    IN  byType \o bySize

BlastRadiusRecommendations(G, node_id, reachable) ==
    LET node_data == NodeData(G, node_id)
        byType ==
            IF node_data.type = "iam_role"
            THEN IF node_data.criticality = "critical"
                 THEN <<"least_privilege", "conditional_policies", "access_analyzer">>
                 ELSE <<>>
            ELSE IF node_data.type = "ec2_instance"
            THEN IF Cardinality(reachable) > SegmentationThreshold
                 THEN <<"restrict_instance_profile", "private_subnet", "network_segmentation">>
                 ELSE <<>>
            ELSE IF node_data.type = "s3_bucket"
            THEN <<"block_public_access", "bucket_policies", "access_logging">>
            ELSE <<>>
        bySize ==
            IF Cardinality(reachable) > ZeroTrustThreshold
            THEN <<"zero_trust", "cross_service_permissions", "just_in_time_access">>
            ELSE <<>>
    IN  byType \o bySize

----------------------------------------------------------------------------
(* AttackPathAnalyzer.calculate_blast_radius *)

RECURSIVE SumRisk(_, _)
SumRisk(G, S) ==
    IF S = {} THEN 0
    ELSE LET n == CHOOSE x \in S : TRUE
         IN  NodeData(G, n).risk_score + SumRisk(G, S \ {n})

\* Variant of NodeNotFoundResult that answers like a node from which nothing is reached
NodeNotFoundAsEmpty(node_id) ==
    [op |-> "blast", status |-> "ok", exc |-> "", arg |-> node_id, error |-> "",
     node_id |-> node_id, node_name |-> <<>>, node_type |-> "",
     reachable_nodes |-> 0, critical_reachable |-> 0,
     average_risk |-> [num |-> 0, den |-> 1], total_risk |-> 0,
     high_value_targets |-> {}, recommendations |-> <<>>]

\* return {"error": "Node not found"}
NodeNotFoundResult(node_id) ==
    [op |-> "blast", status |-> "ok", exc |-> "", arg |-> node_id,
     error |-> "Node not found"]

\* the iteration order of the reachable set is not specified: the targets are a set;
\* error is "" in a result that has no "error" key
CalculateBlastRadiusOf(G, node_id) ==
    IF node_id \notin NodeSet(G)
    THEN NodeNotFoundResult(node_id)
    ELSE IF ~NodeData(G, node_id).present
    THEN [op |-> "blast", status |-> "raise", exc |-> "KeyError", arg |-> node_id]
    ELSE LET reachable == ReachableFrom(G, node_id)
             total_risk == SumRisk(G, reachable)
             targets == {n \in reachable : NodeData(G, n).criticality \in HighValue}
         IN  [op |-> "blast", status |-> "ok", exc |-> "", arg |-> node_id,
              error |-> "",
              node_id |-> node_id,
              node_name |-> NodeData(G, node_id).name,
              node_type |-> NodeData(G, node_id).type,
              reachable_nodes |-> Cardinality(reachable),
              critical_reachable |-> Cardinality(targets),
              average_risk |-> IF reachable # {}
                               THEN [num |-> total_risk, den |-> Cardinality(reachable)]
                               ELSE [num |-> 0, den |-> 1],
              total_risk |-> total_risk,
              high_value_targets |->
                  {[id |-> n, name |-> NodeData(G, n).name, type |-> NodeData(G, n).type,
                    risk_score |-> NodeData(G, n).risk_score] : n \in targets},
              recommendations |-> BlastRadiusRecommendations(G, node_id, reachable)]

----------------------------------------------------------------------------
(* AttackPathAnalyzer.get_high_risk_nodes *)

\* data.get('criticality', 'medium')
CriticalityOrDefault(d) == IF d.present THEN d.criticality ELSE "medium"

GetHighRiskNodesOf(G, limit) ==
    LET keyed == [i \in 1..Len(G.nodes) |->
                     [k |-> G.data[i].risk_score, v |-> G.nodes[i]]]
        top == SliceTo(SortDesc(keyed), limit)
    IN  [op |-> "high_risk", status |-> "ok", exc |-> "", arg |-> limit,
         nodes |-> [i \in 1..Len(top) |->
                      [id |-> top[i].v,
                       name |-> NodeData(G, top[i].v).name,
                       type |-> NodeData(G, top[i].v).type,
                       risk_score |-> NodeData(G, top[i].v).risk_score,
                       criticality |-> CriticalityOrDefault(NodeData(G, top[i].v)),
                       reachable_nodes |-> Cardinality(ReachableFrom(G, top[i].v))]]]

----------------------------------------------------------------------------
(* AttackPathAnalyzer.visualize_graph *)

\* Variant of CalculateNodeSize whose thresholds are inclusive
CalculateNodeSizeInclusive(node_data) ==
    LET risk_score == IF node_data.present THEN node_data.risk_score ELSE 0
    IN  IF risk_score >= 80 THEN 20
        ELSE IF risk_score >= 60 THEN 15
        ELSE IF risk_score >= 40 THEN 10
        ELSE 5

\* _calculate_node_size: node_data.get('risk_score', 0) against 80, 60 and 40
CalculateNodeSize(node_data) ==
    LET risk_score == IF node_data.present THEN node_data.risk_score ELSE 0
    IN  IF risk_score > 80 THEN 20
        ELSE IF risk_score > 60 THEN 15
        ELSE IF risk_score > 40 THEN 10
        ELSE 5

\* self.graph.edges(data=True): the edges node by node, each node's in adjacency order
EdgesInOrder(G) ==
    Flatten([i \in 1..Len(G.nodes) |->
                [k \in 1..Len(G.adj[i]) |->
                    [source |-> G.nodes[i], target |-> G.adj[i][k].to,
                     type |-> G.adj[i][k].type, weight |-> G.adj[i][k].weight]]])

VisualizeGraphOf(G) ==
    [op |-> "visualize", status |-> "ok", exc |-> "",
     nodes |-> [i \in 1..Len(G.nodes) |->
                  [id |-> G.nodes[i],
                   name |-> IF G.data[i].present THEN G.data[i].name ELSE G.nodes[i],
                   type |-> G.data[i].type,
                   group |-> G.data[i].type,
                   account_id |-> G.data[i].account_id,
                   region |-> G.data[i].region,
                   risk_score |-> IF G.data[i].present THEN G.data[i].risk_score ELSE 0,
                   criticality |-> CriticalityOrDefault(G.data[i]),
                   size |-> CalculateNodeSize(G.data[i])]],
     links |-> EdgesInOrder(G)]

\* Variant of GraphAfterReads in which looking an id up creates the node it misses
GraphAfterReadsInserting(G, ids) ==
    LET missing == {id \in ids : id # NoneId /\ id \notin NodeSet(G)}
        added == IF missing = {} THEN <<>>
                 ELSE CHOOSE q \in [1..Cardinality(missing) -> missing] : Range(q) = missing
    IN  [nodes |-> G.nodes \o added,
         data |-> G.data \o [i \in 1..Len(added) |-> NoAttrs],
         adj |-> G.adj \o [i \in 1..Len(added) |-> <<>>]]

\* self.graph after a query that was given ids: the queries test membership
\* (node_id in self.graph), index self.graph.nodes[...] and self.graph[u][v], iterate
\* nodes(data=True) and edges(data=True) and call nx.all_simple_paths and
\* nx.descendants; none of these adds, removes or rewrites anything
GraphAfterReads(G, ids) == G

----------------------------------------------------------------------------
(* The per-account analyzer steps (mock discovery data) *)

\* account.regions[0] if account.regions else 'us-east-1'
FirstRegion(account) ==
    IF account.regions # <<>> THEN account.regions[1] ELSE "us-east-1"

RoleArn(account) == <<"arn:aws:iam::">> \o account.account_id \o <<":role/AdminRole">>

UserArn(account) == <<"arn:aws:iam::">> \o account.account_id \o <<":user/AdminUser">>

InstanceArn(account) ==
    <<"arn:aws:ec2:", FirstRegion(account), ":">> \o account.account_id
        \o <<":instance/i-1234567890">>

BucketArn(account) == <<"arn:aws:s3:::customer-data-">> \o account.account_id

FunctionArn(account) ==
    <<"arn:aws:lambda:", FirstRegion(account), ":">> \o account.account_id
        \o <<":function:data-processor">>

AttackNode(id, type, name, account, region, risk_score, criticality) ==
    [id |-> id, type |-> type, name |-> name, account_id |-> account.account_id,
     region |-> region, risk_score |-> risk_score, criticality |-> criticality]

AttackEdge(source_id, target_id, type, weight) ==
    [source_id |-> source_id, target_id |-> target_id, type |-> type, weight |-> weight]

\* weights are tenths: 8 stands for 0.8
AnalyzeIam(account) ==
    [nodes |-> <<AttackNode(RoleArn(account), "iam_role", <<"AdminRole">>, account,
                            "global", 90, "critical"),
                 AttackNode(UserArn(account), "iam_user", <<"AdminUser">>, account,
                            "global", 85, "critical")>>,
     edges |-> <<AttackEdge(UserArn(account), RoleArn(account), "can_assume", 8)>>]

AnalyzeEc2(account) ==
    [nodes |-> <<AttackNode(InstanceArn(account), "ec2_instance", <<"web-server-1">>,
                            account, FirstRegion(account), 70, "high")>>,
     edges |-> <<AttackEdge(RoleArn(account), InstanceArn(account), "can_access", 9)>>]

\* Variant of AnalyzeS3 that adds 25 to the score for the sensitive_data flag
AnalyzeS3SensitiveBonus(account) ==
    [nodes |-> <<AttackNode(BucketArn(account), "s3_bucket",
                            <<"customer-data-">> \o account.account_id, account,
                            "us-east-1", 80 + 25, "critical")>>,
     edges |-> <<AttackEdge(InstanceArn(account), BucketArn(account), "can_access", 7)>>]

AnalyzeS3(account) ==
    [nodes |-> <<AttackNode(BucketArn(account), "s3_bucket",
                            <<"customer-data-">> \o account.account_id, account,
                            "us-east-1", 80, "critical")>>,
     edges |-> <<AttackEdge(InstanceArn(account), BucketArn(account), "can_access", 7)>>]

AnalyzeLambda(account) ==
    [nodes |-> <<AttackNode(FunctionArn(account), "lambda_function", <<"data-processor">>,
                            account, FirstRegion(account), 60, "medium")>>,
     edges |-> <<AttackEdge(FunctionArn(account), BucketArn(account), "can_access", 8)>>]

AnalyzeNetwork(account) == <<>>

\* one iteration of the loop over the accounts
AnalyzeAccount(account) ==
    [nodes |-> AnalyzeIam(account).nodes \o AnalyzeEc2(account).nodes
                 \o AnalyzeS3(account).nodes \o AnalyzeLambda(account).nodes,
     edges |-> AnalyzeIam(account).edges \o AnalyzeEc2(account).edges
                 \o AnalyzeS3(account).edges \o AnalyzeLambda(account).edges
                 \o AnalyzeNetwork(account)]

\* select(CloudAccount).where(CloudAccount.organization_id == organization_id)
AccountsOf(rows, organization_id) ==
    {a \in rows : a.organization_id = organization_id}

\* Variant of Discover that stops after the first row
DiscoverFirstRow(accts) ==
    [nodes |-> IF accts = <<>> THEN <<>> ELSE AnalyzeAccount(accts[1]).nodes,
     edges |-> IF accts = <<>> THEN <<>> ELSE AnalyzeAccount(accts[1]).edges]

\* nodes and edges lists after the loop over accts (a sequence of rows)
Discover(accts) ==
    [nodes |-> Flatten([i \in 1..Len(accts) |-> AnalyzeAccount(accts[i]).nodes]),
     edges |-> Flatten([i \in 1..Len(accts) |-> AnalyzeAccount(accts[i]).edges])]

NodeAttrs(node) ==
    [present |-> TRUE, type |-> node.type, name |-> node.name,
     account_id |-> node.account_id, region |-> node.region,
     risk_score |-> node.risk_score, criticality |-> node.criticality]

EdgeAttrs(edge) == [type |-> edge.type, weight |-> edge.weight]

\* Variant of ClearGraph that keeps the graph
ClearGraphOmitted(G) == G

\* self.graph.clear()
ClearGraph(G) == EmptyGraph

\* G after add_node(node.id, ...) for every node of nodes and then
\* add_edge(edge.source_id, edge.target_id, ...) for every edge of edges, in order:
\* a new node or edge is appended, a known one is overwritten, and add_edge creates
\* an endpoint that is no node yet, without attributes
Populate(G, nodes, edges) ==
    LET ends == [k \in 1..(2 * Len(edges)) |->
                    IF k % 2 = 1 THEN edges[(k + 1) \div 2].source_id
                    ELSE edges[k \div 2].target_id]
        order == FirstOccurrences(G.nodes \o [i \in 1..Len(nodes) |-> nodes[i].id] \o ends)
        dataOf(id) ==
            IF \E i \in 1..Len(nodes) : nodes[i].id = id
            THEN NodeAttrs(nodes[MaxOf({i \in 1..Len(nodes) : nodes[i].id = id})])
            ELSE IF id \in NodeSet(G) THEN NodeData(G, id) ELSE NoAttrs
        outOf(id) ==
            LET old == IF id \in NodeSet(G) THEN G.adj[IndexOf(G, id)] ELSE <<>>
                mine == SelectSeq(edges, LAMBDA e : e.source_id = id)
                tos == FirstOccurrences([k \in 1..Len(old) |-> old[k].to]
                                        \o [k \in 1..Len(mine) |-> mine[k].target_id])
                attrsOf(to) ==
                    IF \E k \in 1..Len(mine) : mine[k].target_id = to
                    THEN EdgeAttrs(mine[MaxOf({k \in 1..Len(mine) : mine[k].target_id = to})])
                    ELSE LET o == old[MaxOf({k \in 1..Len(old) : old[k].to = to})]
                         IN  [type |-> o.type, weight |-> o.weight]
            IN  [k \in 1..Len(tos) |->
                    [to |-> tos[k], type |-> attrsOf(tos[k]).type,
                     weight |-> attrsOf(tos[k]).weight]]
    IN  [nodes |-> order,
         data |-> [i \in 1..Len(order) |-> dataOf(order[i])],
         adj |-> [i \in 1..Len(order) |-> outOf(order[i])]]

\* Variant of BuiltGraph that adds the nodes and leaves the edges out
BuiltGraphNodesOnly(G, nodes, edges) == Populate(ClearGraph(G), nodes, <<>>)

\* the in-memory graph of build_attack_graph: cleared, then nodes, then edges
BuiltGraph(G, nodes, edges) == Populate(ClearGraph(G), nodes, edges)

----------------------------------------------------------------------------
(* The durable store and AttackPathAnalyzer._sync_to_neo4j *)

EmptyStore == [nodes |-> <<>>, rels |-> <<>>]

\* MATCH (n {organization_id: $org_id}) DETACH DELETE n
StoreClearOrg(store, org_id) ==
    LET keep == {n \in DOMAIN store.nodes : store.nodes[n].organization_id # org_id}
    IN  [nodes |-> [n \in keep |-> store.nodes[n]],
         rels |-> [r \in {x \in DOMAIN store.rels : x[1] \in keep /\ x[3] \in keep}
                     |-> store.rels[r]]]

\* MERGE (n:Resource {id: node.id}) SET ..., n.organization_id = $org_id
\* over the UNWIND list: a node is created or overwritten, the last write stays
StoreMergeNodes(store, nodes, org_id) ==
    LET ids == {nodes[i].id : i \in 1..Len(nodes)}
        last(id) == nodes[MaxOf({i \in 1..Len(nodes) : nodes[i].id = id})]
        props(node) == [organization_id |-> org_id, type |-> node.type,
                        account_id |-> node.account_id, risk_score |-> node.risk_score,
                        criticality |-> node.criticality]
    IN  [store EXCEPT !.nodes = [n \in DOMAIN store.nodes \cup ids |->
                                    IF n \in ids THEN props(last(n)) ELSE store.nodes[n]]]

\* MATCH (source {id}) MATCH (target {id}) CALL apoc.create.relationship(...)
\* over the UNWIND list: every matched edge creates one more relationship
StoreCreateRels(store, edges) ==
    LET matched == SelectSeq(edges, LAMBDA e : e.source_id \in DOMAIN store.nodes
                                               /\ e.target_id \in DOMAIN store.nodes)
        key(e) == <<e.source_id, e.type, e.target_id>>
        new == {key(matched[i]) : i \in 1..Len(matched)}
        created(r) == Cardinality({i \in 1..Len(matched) : key(matched[i]) = r})
    IN  [store EXCEPT !.rels = [r \in DOMAIN store.rels \cup new |->
                                   (IF r \in DOMAIN store.rels THEN store.rels[r] ELSE 0)
                                       + created(r)]]

\* the three queries in order; a failing execute_query raises and ends the sync
SyncToNeo4j(store, nodes, edges, org_id, fail) ==
    LET cleared == StoreClearOrg(store, org_id)
        merged == StoreMergeNodes(cleared, nodes, org_id)
        linked == StoreCreateRels(merged, edges)
    IN  IF fail = "delete" THEN store
        ELSE IF fail = "nodes" THEN cleared
        ELSE IF fail = "edges" THEN merged
        ELSE linked

----------------------------------------------------------------------------
(* Inputs *)

Min(a, b) == IF a <= b THEN a ELSE b

\* all orders of a finite set
Orderings(S) == {s \in [1..Cardinality(S) -> S] : Range(s) = S}

\* identifiers of the query graphs; AbsentId is never a node
Digits == <<"1", "2", "3", "4", "5", "6">>

\* one digit for the first ids, two digits for the ids after them
QueryId(i) ==
    IF i <= Len(Digits) THEN <<"n", Digits[i]>>
    ELSE <<"n", Digits[(i - 1) \div Len(Digits)], Digits[((i - 1) % Len(Digits)) + 1]>>

\* the enumerated query graphs have up to three nodes
SmallIds == <<QueryId(1), QueryId(2), QueryId(3)>>

AbsentId == <<"n", "0">>

Profiles ==
    {[risk_score |-> 90, criticality |-> "critical", type |-> "iam_role"],
     [risk_score |-> 70, criticality |-> "high", type |-> "ec2_instance"],
     [risk_score |-> 30, criticality |-> "low", type |-> "s3_bucket"]}

ProfileNode(i, p) ==
    [id |-> QueryId(i), type |-> p.type, name |-> QueryId(i), account_id |-> <<"1">>,
     region |-> "global", risk_score |-> p.risk_score, criticality |-> p.criticality]

\* the graph with nodes 1..k, node i of profile prof[i], and the edges E (pairs of
\* indices), inserted in index order
MakeGraph(k, prof, E) ==
    LET nodes == [i \in 1..k |-> ProfileNode(i, prof[i])]
        pairs == Flatten([i \in 1..k |->
                    Flatten([j \in 1..k |->
                        IF <<i, j>> \in E
                        THEN <<AttackEdge(QueryId(i), QueryId(j), "can_access", 10)>>
                        ELSE <<>>])])
    IN  Populate(EmptyGraph, nodes, pairs)

SmallGraphs ==
    UNION {{MakeGraph(k, prof, E) :
                prof \in [1..k -> Profiles],
                E \in {X \in SUBSET ((1..k) \X (1..k)) : Cardinality(X) <= MaxEdges}} :
           k \in 0..Len(SmallIds)}

\* Scenario A of the specification: UserX (85, critical) -> RoleY (90, critical)
ScenarioA ==
    Populate(EmptyGraph,
            <<[id |-> QueryId(1), type |-> "iam_user", name |-> <<"UserX">>,
               account_id |-> <<"1">>, region |-> "global", risk_score |-> 85,
               criticality |-> "critical"],
              [id |-> QueryId(2), type |-> "iam_role", name |-> <<"RoleY">>,
               account_id |-> <<"1">>, region |-> "global", risk_score |-> 90,
               criticality |-> "critical"]>>,
        <<AttackEdge(QueryId(1), QueryId(2), "can_assume", 10)>>)

\* complete graphs on six nodes: more than twenty simple paths join two nodes
DenseSize == Len(Digits)

DenseProfiles ==
    LET c == CHOOSE p \in Profiles : p.criticality = "critical"
        h == CHOOSE p \in Profiles : p.criticality = "high"
        l == CHOOSE p \in Profiles : p.criticality = "low"
    IN  {<<c, c, c, c, c, c>>, <<c, h, l, c, h, l>>, <<l, h, c, h, c, c>>}

DenseGraphs ==
    {MakeGraph(DenseSize, prof,
               {e \in (1..DenseSize) \X (1..DenseSize) : e[1] # e[2]}) :
        prof \in DenseProfiles}

\* fans: one source with an edge to each of n low-risk buckets, for the sizes at and
\* just above the two thresholds of the recommendations
FanSizes ==
    {SegmentationThreshold, SegmentationThreshold + 1,
     ZeroTrustThreshold, ZeroTrustThreshold + 1}

FanGraphs ==
    LET leaf == CHOOSE p \in Profiles : p.criticality = "low"
    IN  {MakeGraph(n + 1, [i \in 1..(n + 1) |-> IF i = 1 THEN p ELSE leaf],
                   {<<1, j>> : j \in 2..(n + 1)}) :
            n \in FanSizes, p \in Profiles}

\* a chain whose nodes carry the risk scores at and just above the three thresholds
\* of the node size
BoundaryScores == <<81, 80, 61, 60, 41, 40>>

BoundaryGraph ==
    LET n == Len(BoundaryScores)
    IN  Populate(EmptyGraph,
                 [i \in 1..n |->
                     [id |-> QueryId(i), type |-> "lambda_function", name |-> QueryId(i),
                      account_id |-> <<"1">>, region |-> "global",
                      risk_score |-> BoundaryScores[i],
                      criticality |-> IF BoundaryScores[i] > 60 THEN "high" ELSE "medium"]],
                 [i \in 1..(n - 1) |->
                     AttackEdge(QueryId(i), QueryId(i + 1), "can_access", 10)])

\* rows of cloud_accounts: unique in (organization_id, provider, account_id)
Organizations == {"org1", "org2"}

AccountKinds ==
    {[provider |-> "aws", regions |-> <<"eu-west-1">>, is_active |-> TRUE],
     [provider |-> "azure", regions |-> <<>>, is_active |-> TRUE],
     [provider |-> "gcp", regions |-> <<"eu-west-1">>, is_active |-> FALSE]}

AccountRows ==
    {[organization_id |-> o, provider |-> k.provider, account_id |-> a,
      regions |-> k.regions, is_active |-> k.is_active] :
        o \in Organizations, k \in AccountKinds, a \in {<<"1">>, <<"2">>}}

UniqueAccounts(rows) ==
    \A a, b \in rows :
        (a.organization_id = b.organization_id /\ a.provider = b.provider
            /\ a.account_id = b.account_id) => a = b

AccountTables ==
    {rows \in SUBSET AccountRows : Cardinality(rows) <= MaxAccounts /\ UniqueAccounts(rows)}

\* the graphs build_attack_graph leaves for the account tables
BuiltGraphs ==
    UNION {UNION {{BuiltGraph(EmptyGraph, Discover(order).nodes, Discover(order).edges) :
                        order \in Orderings(AccountsOf(rows, o))} :
                  o \in Organizations} :
           rows \in AccountTables}

QueryGraphs ==
    SmallGraphs \cup {ScenarioA, BoundaryGraph} \cup DenseGraphs \cup FanGraphs \cup BuiltGraphs

\* the node ids tried as arguments: none, an unknown one, and the first nodes
ArgIds(G) ==
    {NoneId, AbsentId} \cup {G.nodes[i] : i \in 1..Min(Len(G.nodes), MaxArgNodes)}

HopLimits == (0..MaxHops) \cup {DefaultMaxPathLength}

Limits == (-1..MaxLimit) \cup {DefaultLimit}

----------------------------------------------------------------------------
(* State machine *)

NoResult == [op |-> "none"]

Idle == result.op = "none"

\* the requests whose build_attack_graph calls overlap
Runs == {"r1", "r2"}

\* a request that has not called build_attack_graph yet; graph is the self.graph of
\* the request's own analyzer, nodes and edges are the call's local lists
IdleRun == [pc |-> "idle", org |-> "", nodes |-> <<>>, edges |-> <<>>, graph |-> EmptyGraph]

NoRuns ==
    /\ runs = [r \in Runs |-> IdleRun]
    /\ loop = "none"
    /\ log = <<>>

\* AttackPathAnalyzer.__init__ on a store and an account table
Init ==
    /\ graph = EmptyGraph
    /\ accounts \in AccountTables
    /\ neo4j = EmptyStore
    /\ result = NoResult
    /\ NoRuns

\* an analyzer whose graph is any of the query graphs
InitQuery ==
    /\ graph \in QueryGraphs
    /\ accounts = {}
    /\ neo4j = EmptyStore
    /\ result = NoResult
    /\ NoRuns

\* two requests about to build, each with an analyzer of its own
InitConcurrent ==
    /\ graph = EmptyGraph
    /\ accounts \in AccountTables
    /\ neo4j = EmptyStore
    /\ result = NoResult
    /\ NoRuns

\* an analyzer of an organization without accounts, before its build
InitEmitted ==
    /\ graph = EmptyGraph
    /\ accounts = {}
    /\ neo4j = EmptyStore
    /\ result = NoResult
    /\ NoRuns

MaxCopies(store) ==
    IF DOMAIN store.rels = {} THEN 0 ELSE MaxOf({store.rels[r] : r \in DOMAIN store.rels})

\* the steps of build_attack_graph that can raise: the SELECT, an analyzer step of one
\* account, and the three queries of the sync
Faults == {"none", "db", "discovery", "delete", "nodes", "edges"}

\* a build call that got as far as populating the in-memory graph
Populated(r) == r.op = "build" /\ r.fault \notin {"db", "discovery"}

\* the graph a call starts from, kept when the caller's previous call on this analyzer
\* was a build for the same organization that populated the graph
Previous(organization_id) ==
    IF Populated(result) /\ result.organization_id = organization_id
    THEN [repeat |-> TRUE, nodes |-> NodeSet(graph), edges |-> EdgeSet(graph)]
    ELSE [repeat |-> FALSE, nodes |-> {}, edges |-> {}]

\* build_attack_graph(organization_id); order is the row order of the SELECT, fail
\* names the step that raises, if any.  No step is wrapped in a handler: whatever
\* raises ends the call, and what was done before it stays done.
BuildAttackGraph(organization_id, order, fail) ==
    /\ result.op \in {"none", "build"}
    /\ order \in Orderings(AccountsOf(accounts, organization_id))
    /\ IF fail = "db"
       THEN /\ graph' = ClearGraph(graph)
            /\ neo4j' = neo4j
            /\ result' = [op |-> "build", status |-> "raise", exc |-> "DBAPIError",
                          organization_id |-> organization_id, fault |-> fail,
                          previous |-> Previous(organization_id),
                          built_nodes |-> <<>>, built_edges |-> <<>>]
       ELSE IF fail = "discovery"
       THEN \E k \in 1..Len(order) :
            /\ graph' = ClearGraph(graph)
            /\ neo4j' = neo4j
            /\ result' = [op |-> "build", status |-> "raise", exc |-> "DiscoveryError",
                          organization_id |-> organization_id, fault |-> fail,
                          previous |-> Previous(organization_id),
                          failed |-> order[k],
                          built_nodes |-> <<>>, built_edges |-> <<>>]
       ELSE LET found == Discover(order)
                store == SyncToNeo4j(neo4j, found.nodes, found.edges, organization_id, fail)
            IN  /\ MaxCopies(store) <= MaxRelCopies
                /\ graph' = BuiltGraph(graph, found.nodes, found.edges)
                /\ neo4j' = store
                /\ result' =
                     IF fail = "none"
                     THEN [op |-> "build", status |-> "ok", exc |-> "",
                           organization_id |-> organization_id, fault |-> fail,
                           previous |-> Previous(organization_id),
                           built_nodes |-> found.nodes, built_edges |-> found.edges,
                           nodes |-> Len(found.nodes), edges |-> Len(found.edges),
                           accounts |-> Len(order)]
                     ELSE [op |-> "build", status |-> "raise", exc |-> "Neo4jError",
                           organization_id |-> organization_id, fault |-> fail,
                           previous |-> Previous(organization_id),
                           built_nodes |-> found.nodes, built_edges |-> found.edges]
    /\ UNCHANGED <<accounts, runs, loop, log>>

Build ==
    \E o \in Organizations, fail \in Faults :
        \E order \in Orderings(AccountsOf(accounts, o)) : BuildAttackGraph(o, order, fail)

\* find_attack_paths(source_node_id, target_node_id, max_path_length); trivial is the
\* installed library's behaviour: networkx from 3.2 on yields the path [source] when
\* the source is itself a target, earlier versions yield nothing for it
FindAttackPaths ==
    /\ Idle
    /\ \E s \in ArgIds(graph), t \in ArgIds(graph), c \in HopLimits, trivial \in BOOLEAN :
          /\ result' = FindAttackPathsOf(graph, s, t, c, trivial)
          /\ graph' = GraphAfterReads(graph, {s, t})
    /\ UNCHANGED <<accounts, neo4j, runs, loop, log>>

CalculateBlastRadius ==
    /\ Idle
    /\ \E n \in ArgIds(graph) \ {NoneId} :
          /\ result' = CalculateBlastRadiusOf(graph, n)
          /\ graph' = GraphAfterReads(graph, {n})
    /\ UNCHANGED <<accounts, neo4j, runs, loop, log>>

GetHighRiskNodes ==
    /\ Idle
    /\ \E limit \in Limits : result' = GetHighRiskNodesOf(graph, limit)
    /\ graph' = GraphAfterReads(graph, {})
    /\ UNCHANGED <<accounts, neo4j, runs, loop, log>>

VisualizeGraph ==
    /\ Idle
    /\ result' = VisualizeGraphOf(graph)
    /\ graph' = GraphAfterReads(graph, {})
    /\ UNCHANGED <<accounts, neo4j, runs, loop, log>>

\* the caller takes the outcome
Return ==
    /\ ~Idle
    /\ result' = NoResult
    /\ UNCHANGED <<graph, accounts, neo4j, runs, loop, log>>

(* Concurrent requests.  The server runs the request coroutines on one event    *)
(* loop: a coroutine keeps the loop until it awaits something that is not ready *)
(* yet, and only then can another coroutine run.                                *)

\* Variant of ExecuteQuerySuspends for a driver call that is really awaited
ExecuteQueryAwaitsDriver == TRUE

\* whether awaiting neo4j_client.execute_query gives up the event loop: its body
\* calls the blocking driver (session.run) and awaits nothing
ExecuteQuerySuspends == FALSE

\* run r can take its next step: it holds the loop, or the loop is free
CanRun(r) == loop \in {"none", r}

\* who holds the loop after r passed an await
AfterAwait(r, suspends) == IF suspends THEN "none" ELSE r

Logged(r, step) == Append(log, [run |-> r, step |-> step])

\* a request calls build_attack_graph: self.graph.clear(), then the coroutine awaits
\* the SELECT on the async database session and gives up the loop
Call(r) ==
    /\ runs[r].pc = "idle"
    /\ loop = "none"
    /\ \E o \in Organizations :
          runs' = [runs EXCEPT ![r] = [@ EXCEPT !.pc = "select", !.org = o,
                                                !.graph = ClearGraph(@)]]
    /\ loop' = "none"
    /\ log' = Logged(r, "call")
    /\ UNCHANGED <<graph, accounts, neo4j, result>>

\* the rows arrive: the analyzer steps and the add_node / add_edge loops run without
\* giving up the loop, up to the first query of _sync_to_neo4j
Resume(r) ==
    /\ runs[r].pc = "select"
    /\ loop = "none"
    /\ \E order \in Orderings(AccountsOf(accounts, runs[r].org)) :
          LET found == Discover(order)
          IN  runs' = [runs EXCEPT ![r] =
                          [@ EXCEPT !.pc = "delete", !.nodes = found.nodes,
                                    !.edges = found.edges,
                                    !.graph = BuiltGraph(@, found.nodes, found.edges)]]
    /\ loop' = r
    /\ UNCHANGED <<graph, accounts, neo4j, result, log>>

\* one query of _sync_to_neo4j by run r: it raises and ends the call, or it is
\* applied to the store and the call goes on to next
StoreStep(r, step, next, store) ==
    /\ runs[r].pc = step
    /\ CanRun(r)
    /\ \E raises \in BOOLEAN :
          IF raises
          THEN /\ runs' = [runs EXCEPT ![r].pc = "raised"]
               /\ loop' = "none"
               /\ UNCHANGED <<neo4j, log>>
          ELSE /\ neo4j' = store
               /\ runs' = [runs EXCEPT ![r].pc = next]
               /\ loop' = IF next = "returned" THEN "none"
                          ELSE AfterAwait(r, ExecuteQuerySuspends)
               /\ log' = Logged(r, step)
    /\ UNCHANGED <<graph, accounts, result>>

StoreDelete(r) ==
    StoreStep(r, "delete", "nodes", StoreClearOrg(neo4j, runs[r].org))

StoreNodes(r) ==
    StoreStep(r, "nodes", "edges", StoreMergeNodes(neo4j, runs[r].nodes, runs[r].org))

StoreEdges(r) ==
    StoreStep(r, "edges", "returned", StoreCreateRels(neo4j, runs[r].edges))

NextConcurrent ==
    \E r \in Runs :
        Call(r) \/ Resume(r) \/ StoreDelete(r) \/ StoreNodes(r) \/ StoreEdges(r)

(* The analyzer steps are placeholders that return fixed data where discovery   *)
(* is to be called.  The rest of build_attack_graph takes whatever lists they   *)
(* return; here it runs on node and edge lists drawn from small sets, an edge   *)
(* list being free to name an id that no listed node has.                       *)

EmittedIds == [i \in 1..(MaxEmitted + 1) |-> QueryId(i)]

EmittedNodeLists ==
    UNION {{[i \in 1..k |-> ProfileNode(i, prof[i])] : prof \in [1..k -> Profiles]} :
           k \in 0..MaxEmitted}

EmittedEdgeLists ==
    UNION {[1..k -> {AttackEdge(EmittedIds[i], EmittedIds[j], "can_access", 10) :
                        i, j \in 1..Len(EmittedIds)}] :
           k \in 0..MaxEmitted}

\* build_attack_graph from the end of the loop over the accounts on: the add_node and
\* add_edge loops, the sync, and the returned counts
BuildFromEmitted ==
    /\ Idle
    /\ \E o \in Organizations, nodes \in EmittedNodeLists, edges \in EmittedEdgeLists :
          /\ graph' = BuiltGraph(graph, nodes, edges)
          /\ neo4j' = SyncToNeo4j(neo4j, nodes, edges, o, "none")
          /\ result' = [op |-> "build", status |-> "ok", exc |-> "",
                        organization_id |-> o, fault |-> "none",
                        previous |-> Previous(o),
                        built_nodes |-> nodes, built_edges |-> edges,
                        nodes |-> Len(nodes), edges |-> Len(edges),
                        accounts |-> Cardinality(AccountsOf(accounts, o))]
    /\ UNCHANGED <<accounts, runs, loop, log>>

NextEmitted == BuildFromEmitted

\* the builder and the durable store
Next == Build \/ Return

\* the queries, on any graph the analyzer may hold
NextQuery ==
    FindAttackPaths \/ CalculateBlastRadius \/ GetHighRiskNodes \/ VisualizeGraph \/ Return

Spec == Init /\ [][Next]_vars

SpecQuery == InitQuery /\ [][NextQuery]_vars

SpecConcurrent == InitConcurrent /\ [][NextConcurrent]_vars

SpecEmitted == InitEmitted /\ [][NextEmitted]_vars

----------------------------------------------------------------------------
(* Reference definitions for the properties *)

FindOk == result.op = "find" /\ result.status = "ok"

ExplicitMode == result.source # NoneId /\ result.target # NoneId

SourceOnlyMode == result.source # NoneId /\ result.target = NoneId

AutomaticMode == result.source = NoneId

Distinct(s) == Cardinality(Range(s)) = Len(s)

IsEdge(G, u, v) == <<u, v>> \in EdgeSet(G)

\* the simple paths of G with exactly k nodes that start at a, by extension of the
\* ones with k - 1 nodes
RECURSIVE SimplePathsOfSize(_, _, _)
SimplePathsOfSize(G, a, k) ==
    IF k = 1 THEN {<<a>>}
    ELSE {q \in {Append(p, c) : p \in SimplePathsOfSize(G, a, k - 1), c \in NodeSet(G)} :
              IsEdge(G, q[k - 1], q[k]) /\ Distinct(q)}

\* the simple paths from a to b with at least one and at most hops edges
SimplePathsRef(G, a, b, hops) ==
    IF a \notin NodeSet(G) THEN {}
    ELSE UNION {{p \in SimplePathsOfSize(G, a, k) : p[k] = b} :
                    k \in 2..Min(hops + 1, Len(G.nodes))}

----------------------------------------------------------------------------
(* C1: with a source and a target given, every path find_attack_paths returns   *)
(* has no node twice and at most max_path_length edges.                         *)

C1_SimpleAndBounded ==
    (FindOk /\ ExplicitMode) =>
        \A i \in 1..Len(result.paths) :
            /\ Distinct(result.paths[i].nodes)
            /\ Len(result.paths[i].nodes) - 1 <= result.cutoff
            /\ result.paths[i].path_length <= result.cutoff

\* a search limited to one hop in a graph that also joins the two nodes by a
\* two-hop path and closes a cycle through them
C1_Witness ==
    /\ FindOk /\ ExplicitMode
    /\ result.cutoff = 1
    /\ Len(result.paths) = 1
    /\ \E x \in NodeSet(graph) \ {result.source, result.target} :
          /\ IsEdge(graph, result.source, x)
          /\ IsEdge(graph, x, result.target)
    /\ IsEdge(graph, result.target, result.source)

----------------------------------------------------------------------------
(* C2: in every mode the returned list is the top-20 prefix of the candidate    *)
(* paths by total_risk: at most 20 entries, all of them candidates, total_risk  *)
(* non-increasing, and no candidate left out has a strictly higher total_risk   *)
(* than a returned one.                                                         *)

C2_TopTwentyByRisk ==
    FindOk =>
        /\ Len(result.paths) = Min(TopPaths, Len(result.candidates))
        /\ Len(result.paths) <= 20
        /\ Distinct(result.paths)
        /\ Range(result.paths) \subseteq Range(result.candidates)
        /\ \A i, j \in 1..Len(result.paths) :
              i < j => result.paths[i].total_risk >= result.paths[j].total_risk
        /\ \A c \in Range(result.candidates) \ Range(result.paths) :
              \A p \in Range(result.paths) : c.total_risk <= p.total_risk

\* more than twenty candidates between two given nodes, some left out with a lower
\* risk, and an order that the sort had to change
C2_Witness ==
    /\ FindOk /\ ExplicitMode
    /\ Len(result.candidates) > TopPaths
    /\ \E c \in Range(result.candidates) \ Range(result.paths) :
          c.total_risk < result.paths[TopPaths].total_risk
    /\ result.paths # Prefix(result.candidates, TopPaths)

----------------------------------------------------------------------------
(* C3: total_risk of every returned path is the plain sum of the risk scores of *)
(* its nodes; on the graph UserX (85, critical) -> RoleY (90, critical) the     *)
(* search from UserX to RoleY returns exactly one path, with total_risk 175,    *)
(* path_length 1 and critical_nodes [UserX, RoleY].                             *)

C3_PlainSum ==
    FindOk =>
        /\ \A i \in 1..Len(result.paths) :
              result.paths[i].total_risk = SumRisk(graph, Range(result.paths[i].nodes))
        /\ (graph = ScenarioA /\ result.source = QueryId(1) /\ result.target = QueryId(2)
                /\ result.cutoff >= 1) =>
              /\ Len(result.paths) = 1
              /\ result.paths[1].total_risk = 175
              /\ result.paths[1].path_length = 1
              /\ result.paths[1].critical_nodes = <<QueryId(1), QueryId(2)>>

C3_Witness ==
    /\ FindOk
    /\ graph = ScenarioA
    /\ result.source = QueryId(1) /\ result.target = QueryId(2)
    /\ result.cutoff = DefaultMaxPathLength
    /\ Len(result.paths) = 1
    /\ result.paths[1].total_risk = 175

----------------------------------------------------------------------------
(* C4: for every node n, reachable_nodes of calculate_blast_radius(n) and the   *)
(* reachable_nodes that get_high_risk_nodes attaches to n equal the number of   *)
(* nodes other than n in the forward transitive closure of n, also when n lies  *)
(* on a cycle.                                                                  *)

\* Warshall's algorithm on the edge relation R, over the pivots of S
RECURSIVE Warshall(_, _)
Warshall(R, S) ==
    IF S = {} THEN R
    ELSE LET k == CHOOSE x \in S : TRUE
             from == {e[1] : e \in {x \in R : x[2] = k}}
             to == {e[2] : e \in {x \in R : x[1] = k}}
         IN  Warshall(R \cup (from \X to), S \ {k})

ClosureOf(G, n) ==
    {e[2] : e \in {x \in Warshall(EdgeSet(G), NodeSet(G)) : x[1] = n}}

OnCycle(G, n) == n \in ClosureOf(G, n)

C4_ReachableIsClosure ==
    /\ (result.op = "blast" /\ result.status = "ok" /\ result.error = "") =>
          result.reachable_nodes = Cardinality(ClosureOf(graph, result.arg) \ {result.arg})
    /\ result.op = "high_risk" =>
          \A i \in 1..Len(result.nodes) :
              result.nodes[i].reachable_nodes =
                  Cardinality(ClosureOf(graph, result.nodes[i].id) \ {result.nodes[i].id})

\* the blast radius of a node on a cycle that reaches every other node
C4_Witness ==
    /\ result.op = "blast" /\ result.status = "ok" /\ result.error = ""
    /\ OnCycle(graph, result.arg)
    /\ Len(graph.nodes) = 3
    /\ result.reachable_nodes = 2
    /\ ~IsEdge(graph, result.arg, result.arg)

----------------------------------------------------------------------------
(* C5: find_attack_paths with a source id that is no node of the graph (target  *)
(* given or not) returns an empty list and raises nothing.                      *)
(* The code lets the library's NodeNotFound escape: it catches NetworkXNoPath   *)
(* only.                                                                        *)

C5_AbsentSourceIsEmpty ==
    (result.op = "find" /\ result.source # NoneId /\ result.source \notin NodeSet(graph)) =>
        (result.status = "ok" /\ result.paths = <<>>)

----------------------------------------------------------------------------
(* C6: find_attack_paths with a source that is a node and a target id that is   *)
(* no node of the graph returns an empty list and raises nothing.               *)

C6_AbsentTargetIsEmpty ==
    (result.op = "find" /\ result.source \in NodeSet(graph)
        /\ result.target # NoneId /\ result.target \notin NodeSet(graph)) =>
        (result.status = "ok" /\ result.paths = <<>> /\ result.candidates = <<>>)

\* the source has successors and the graph has high-value nodes to be found
C6_Witness ==
    /\ FindOk
    /\ result.source \in NodeSet(graph)
    /\ result.target = AbsentId
    /\ result.cutoff = DefaultMaxPathLength
    /\ \E t \in NodeSet(graph) \ {result.source} :
          /\ IsEdge(graph, result.source, t)
          /\ NodeData(graph, t).criticality \in HighValue
    /\ result.paths = <<>>

----------------------------------------------------------------------------
(* C7: in automatic mode every simple path within the hop limit from a critical *)
(* node a to another critical node b is a candidate, for both orders in which   *)
(* a and b were inserted.                                                       *)
(* The code searches from the earlier inserted node to the later one only.      *)

C7_BothDirections ==
    (FindOk /\ AutomaticMode) =>
        \A a, b \in Range(NodesWithCriticality(graph, {"critical"})) :
            a # b =>
                SimplePathsRef(graph, a, b, result.cutoff)
                    \subseteq {result.candidates[i].nodes : i \in 1..Len(result.candidates)}

----------------------------------------------------------------------------
(* C8: in source-only mode the candidates are exactly the simple paths within   *)
(* the hop limit from the source to the nodes of criticality high or critical:  *)
(* every returned path starts at the source and ends at such a node, and no      *)
(* such path of one or more edges is missing.  (The zero-edge path [source] of  *)
(* a high-value source is a candidate with networkx 3.2 and later only.)        *)

HighValueNodes(G) == Range(NodesWithCriticality(G, HighValue))

C8_SourceOnlyCandidates ==
    (FindOk /\ SourceOnlyMode) =>
        LET found == {result.candidates[i].nodes : i \in 1..Len(result.candidates)}
            expected == UNION {SimplePathsRef(graph, result.source, t, result.cutoff) :
                                  t \in HighValueNodes(graph)}
        IN  /\ found \ {<<result.source>>} = expected
            /\ Distinct(result.candidates)
            /\ \A p \in found : p[1] = result.source /\ p[Len(p)] \in HighValueNodes(graph)
            /\ \A i \in 1..Len(result.paths) :
                  /\ result.paths[i].nodes[1] = result.source
                  /\ result.paths[i].nodes[Len(result.paths[i].nodes)]
                        \in HighValueNodes(graph)

\* paths to a high node and to a critical node, and a node that is no target
C8_Witness ==
    /\ FindOk /\ SourceOnlyMode
    /\ \E i, j \in 1..Len(result.candidates) :
          LET p == result.candidates[i].nodes
              q == result.candidates[j].nodes
          IN  /\ Len(p) = 3
              /\ NodeData(graph, p[3]).criticality = "high"
              /\ NodeData(graph, p[2]).criticality = "low"
              /\ NodeData(graph, q[Len(q)]).criticality = "critical"

----------------------------------------------------------------------------
(* C9: calculate_blast_radius on an id that is no node returns the not-found    *)
(* result and raises nothing; the result for a node carries no error, and       *)
(* reachable_nodes = 0 when nothing is reached from it, so the two differ.      *)

C9_NotFoundIsExplicit ==
    result.op = "blast" =>
        /\ result.arg \notin NodeSet(graph) =>
              (result.status = "ok" /\ result.error = "Node not found")
        /\ result.arg \in NodeSet(graph) =>
              /\ result.status = "ok"
              /\ result.error = ""
              /\ Successors(graph, result.arg) = <<>> => result.reachable_nodes = 0

\* an unknown id asked of a graph that has a node without successors
C9_Witness ==
    /\ result.op = "blast"
    /\ result.arg = AbsentId
    /\ result.error = "Node not found"
    /\ \E n \in NodeSet(graph) : Successors(graph, n) = <<>>

----------------------------------------------------------------------------
(* C10: after a build_attack_graph call the in-memory graph holds exactly the   *)
(* nodes and edges that this call produced, whatever earlier calls built.       *)

C10_GraphIsLastBuild ==
    result.op = "build" =>
        /\ NodeSet(graph) = {result.built_nodes[i].id : i \in 1..Len(result.built_nodes)}
        /\ EdgeSet(graph) =
              {<<result.built_edges[i].source_id, result.built_edges[i].target_id>> :
                  i \in 1..Len(result.built_edges)}

\* a build after one for another organization whose nodes it does not produce
C10_Witness ==
    /\ result.op = "build" /\ result.status = "ok"
    /\ graph.nodes # <<>>
    /\ \E n \in DOMAIN neo4j.nodes :
          /\ neo4j.nodes[n].organization_id # result.organization_id
          /\ n \notin NodeSet(graph)

----------------------------------------------------------------------------
(* C11: when an analyzer step of one account raises during build_attack_graph,  *)
(* the build completes: the failing account contributes nothing and the graph   *)
(* holds the nodes and edges of every other account of the organization.        *)
(* The loop over the accounts has no handler, so the exception ends the call    *)
(* with the graph cleared.                                                      *)

IdsOf(nodes) == {nodes[i].id : i \in 1..Len(nodes)}

EndsOf(edges) == {<<edges[i].source_id, edges[i].target_id>> : i \in 1..Len(edges)}

C11_DiscoveryFailureTolerated ==
    (result.op = "build" /\ result.fault = "discovery") =>
        /\ result.status = "ok"
        /\ \A order \in Orderings(AccountsOf(accounts, result.organization_id)
                                     \ {result.failed}) :
              /\ NodeSet(graph) = IdsOf(Discover(order).nodes)
              /\ EdgeSet(graph) = EndsOf(Discover(order).edges)

----------------------------------------------------------------------------
(* C12: when a query of the durable-mirror sync fails (the delete, the node     *)
(* insert or the edge insert), the in-memory graph keeps every node, with the   *)
(* attributes discovered for it, and every edge produced by this build.         *)

C12_GraphKeptOnMirrorFailure ==
    (result.op = "build" /\ result.fault \in {"delete", "nodes", "edges"}) =>
        /\ \A i \in 1..Len(result.built_nodes) :
              /\ result.built_nodes[i].id \in NodeSet(graph)
              /\ NodeData(graph, result.built_nodes[i].id).present
              /\ NodeData(graph, result.built_nodes[i].id).account_id
                    = result.built_nodes[i].account_id
              /\ NodeData(graph, result.built_nodes[i].id).risk_score
                    = result.built_nodes[i].risk_score
        /\ \A i \in 1..Len(result.built_edges) :
              /\ result.built_edges[i].source_id \in NodeSet(graph)
              /\ LET out == graph.adj[IndexOf(graph, result.built_edges[i].source_id)]
                 IN  \E k \in 1..Len(out) :
                        /\ out[k].to = result.built_edges[i].target_id
                        /\ out[k].type = result.built_edges[i].type
                        /\ out[k].weight = result.built_edges[i].weight

\* the edge insert fails after the delete and the node insert went through
C12_Witness ==
    /\ result.op = "build" /\ result.fault = "edges"
    /\ Len(result.built_edges) >= 4
    /\ Len(graph.nodes) >= 5
    /\ DOMAIN neo4j.nodes # {}
    /\ DOMAIN neo4j.rels = {}

----------------------------------------------------------------------------
(* C13: a failing query of the durable-mirror sync does not propagate out of    *)
(* build_attack_graph: the call returns its node, edge and account counts.      *)
(* _sync_to_neo4j is awaited without a handler, so the driver's exception       *)
(* leaves build_attack_graph and no counts are returned.                        *)

C13_MirrorFailureRecovered ==
    (result.op = "build" /\ result.fault \in {"delete", "nodes", "edges"}) =>
        /\ result.status = "ok"
        /\ result.exc = ""

----------------------------------------------------------------------------
(* C14: the durable-store queries (delete, node insert, edge insert) of two     *)
(* overlapping build_attack_graph calls never interleave: between two queries   *)
(* of one call there is no query of the other.  When both calls were for the    *)
(* same organization and both returned, the store holds what the call that      *)
(* synced last wrote, each edge once per occurrence in that call's edge list.   *)

StoreLog == SelectSeq(log, LAMBDA e : e.step # "call")

C14_StoreStepsNotInterleaved ==
    /\ \A i, j, k \in 1..Len(StoreLog) :
          (i < j /\ j < k /\ StoreLog[i].run = StoreLog[k].run) =>
              StoreLog[j].run = StoreLog[i].run
    /\ ((\A r \in Runs : runs[r].pc = "returned")
            /\ (\A r, q \in Runs : runs[r].org = runs[q].org)) =>
          LET last == runs[StoreLog[Len(StoreLog)].run]
          IN  neo4j = SyncToNeo4j(EmptyStore, last.nodes, last.edges, last.org, "none")

\* both calls were made before either reached the store, the second caller synced
\* first, and both returned for the same organization
C14_Witness ==
    /\ Len(log) = 8
    /\ log[1].step = "call" /\ log[2].step = "call"
    /\ log[3].run = log[2].run
    /\ log[8].run = log[1].run
    /\ \A r \in Runs : runs[r].pc = "returned" /\ runs[r].org = "org1"
    /\ DOMAIN neo4j.rels # {}

----------------------------------------------------------------------------
(* C15: after a successful build_attack_graph for organization O the store's    *)
(* nodes tagged with O are exactly the nodes of this build, and between them    *)
(* there is one relationship per edge of this build and no other.               *)
(* MERGE matches a node by id alone, so a node another organization wrote is    *)
(* retagged and keeps its relationships, and apoc.create.relationship adds a    *)
(* further copy next to them.                                                   *)

Tagged(store, O) == {n \in DOMAIN store.nodes : store.nodes[n].organization_id = O}

C15_FullReplace ==
    (result.op = "build" /\ result.status = "ok") =>
        LET mine == Tagged(neo4j, result.organization_id)
            made(r) == Cardinality({i \in 1..Len(result.built_edges) :
                            /\ result.built_edges[i].source_id = r[1]
                            /\ result.built_edges[i].type = r[2]
                            /\ result.built_edges[i].target_id = r[3]})
        IN  /\ mine = IdsOf(result.built_nodes)
            /\ \A i \in 1..Len(result.built_edges) :
                  <<result.built_edges[i].source_id, result.built_edges[i].type,
                    result.built_edges[i].target_id>> \in DOMAIN neo4j.rels
            /\ \A r \in DOMAIN neo4j.rels :
                  (r[1] \in mine /\ r[3] \in mine) => neo4j.rels[r] = made(r)

----------------------------------------------------------------------------
(* C16: a build_attack_graph call that follows one for the same organization on *)
(* the same accounts leaves a graph with the same set of node ids and the same  *)
(* set of edges, whatever order the rows come in.                               *)

C16_Idempotent ==
    (Populated(result) /\ result.previous.repeat) =>
        /\ NodeSet(graph) = result.previous.nodes
        /\ EdgeSet(graph) = result.previous.edges

\* the second of two builds of a two-account organization
C16_Witness ==
    /\ Populated(result) /\ result.status = "ok"
    /\ result.previous.repeat
    /\ result.accounts = 2
    /\ Cardinality(NodeSet(graph)) = 10
    /\ Cardinality(result.previous.edges) = 8

----------------------------------------------------------------------------
(* C17: build_attack_graph visits the active accounts of the organization only: *)
(* the graph holds what the active accounts yield and nothing else, and the     *)
(* reported number of accounts is the number of active ones.                    *)
(* The SELECT filters on organization_id alone.                                 *)

ActiveAccountsOf(rows, organization_id) ==
    {a \in AccountsOf(rows, organization_id) : a.is_active}

C17_OnlyActiveAccounts ==
    (result.op = "build" /\ result.status = "ok") =>
        /\ result.accounts = Cardinality(ActiveAccountsOf(accounts, result.organization_id))
        /\ \A order \in Orderings(ActiveAccountsOf(accounts, result.organization_id)) :
              /\ NodeSet(graph) = IdsOf(Discover(order).nodes)
              /\ EdgeSet(graph) = EndsOf(Discover(order).edges)

----------------------------------------------------------------------------
(* C18: the node list of one build_attack_graph call has no two nodes with the  *)
(* same id, for every account table the unique constraint admits, so the        *)
(* reported node count is the number of nodes of the graph.                     *)
(* The analyzers build the ids from account_id (and region) without the         *)
(* provider.                                                                    *)

C18_NoDuplicateNodeIds ==
    (result.op = "build" /\ result.status = "ok") =>
        /\ \A i, j \in 1..Len(result.built_nodes) :
              result.built_nodes[i].id = result.built_nodes[j].id => i = j
        /\ result.nodes = Len(graph.nodes)

----------------------------------------------------------------------------
(* C19: an edge that names an id no listed node has is not inserted silently:   *)
(* after build_attack_graph every node of the graph is a listed node carrying   *)
(* its attributes, and every edge joins two listed nodes.                       *)
(* DiGraph.add_edge creates a missing endpoint as a node without attributes     *)
(* and inserts the edge; nothing fails and nothing is reported.                 *)

----------------------------------------------------------------------------
(* C20: get_high_risk_nodes(limit) with limit >= 0 on a graph of n nodes        *)
(* returns min(limit, n) distinct nodes by descending risk_score, nodes of      *)
(* equal risk_score in the order they were inserted in the graph, and no node   *)
(* left out has a higher risk_score than a returned one.                        *)

C20_TopByRiskStable ==
    (result.op = "high_risk" /\ result.arg >= 0) =>
        LET out == result.nodes
            pos(i) == IndexOf(graph, out[i].id)
        IN  /\ result.status = "ok"
            /\ Len(out) = Min(result.arg, Len(graph.nodes))
            /\ \A i \in 1..Len(out) :
                  /\ out[i].id \in NodeSet(graph)
                  /\ out[i].risk_score = NodeData(graph, out[i].id).risk_score
            /\ \A i, j \in 1..Len(out) :
                  i < j => \/ out[i].risk_score > out[j].risk_score
                           \/ out[i].risk_score = out[j].risk_score /\ pos(i) < pos(j)
            /\ \A n \in NodeSet(graph) \ {out[i].id : i \in 1..Len(out)} :
                  \A i \in 1..Len(out) :
                      \/ NodeData(graph, n).risk_score < out[i].risk_score
                      \/ /\ NodeData(graph, n).risk_score = out[i].risk_score
                         /\ IndexOf(graph, n) > pos(i)

\* limit 3 on a graph of ten nodes: two nodes tie for the first place, and of the two
\* that tie for the third place the later inserted one is left out
C20_Witness ==
    /\ result.op = "high_risk"
    /\ result.arg = 3
    /\ Len(graph.nodes) = 10
    /\ Len(result.nodes) = 3
    /\ result.nodes[1].risk_score = result.nodes[2].risk_score
    /\ \E n \in NodeSet(graph) :
          /\ n \notin {result.nodes[i].id : i \in 1..3}
          /\ NodeData(graph, n).risk_score = result.nodes[3].risk_score

----------------------------------------------------------------------------
(* C21: find_attack_paths, calculate_blast_radius, get_high_risk_nodes and      *)
(* visualize_graph leave the in-memory graph as it was: the same nodes in the   *)
(* same order, the same node attributes, the same edges and edge attributes,    *)
(* also when a call names an id that is no node.                                *)

QueryOps == {"find", "blast", "high_risk", "visualize"}

C21_QueriesArePureReads == [][result'.op \in QueryOps => graph' = graph]_vars

\* a blast radius asked for an unknown id, on a graph with nodes and edges
C21_Witness ==
    /\ result.op = "blast"
    /\ result.arg = AbsentId
    /\ graph.nodes # <<>>
    /\ EdgeSet(graph) # {}
    /\ AbsentId \notin NodeSet(graph)

----------------------------------------------------------------------------
(* C22: every attack path find_attack_paths returns is well-formed: it has at   *)
(* least one node, one edge fewer than nodes, its i-th edge goes from its i-th  *)
(* node to the next one and is an edge of the graph, path_length is the number  *)
(* of its edges, and critical_nodes are the ids of its nodes of criticality     *)
(* high or critical, in path order.                                             *)

WellFormed(G, p) ==
    /\ Len(p.nodes) >= 1
    /\ Len(p.edges) = Len(p.nodes) - 1
    /\ \A i \in 1..Len(p.edges) :
          /\ p.edges[i].source_id = p.nodes[i]
          /\ p.edges[i].target_id = p.nodes[i + 1]
          /\ \E a \in 1..Len(G.nodes) :
                /\ G.nodes[a] = p.nodes[i]
                /\ \E k \in 1..Len(G.adj[a]) :
                      /\ G.adj[a][k].to = p.nodes[i + 1]
                      /\ G.adj[a][k].type = p.edges[i].type
                      /\ G.adj[a][k].weight = p.edges[i].weight
    /\ p.path_length = Len(p.edges)
    /\ p.critical_nodes =
          SelectSeq(p.nodes, LAMBDA n : \E a \in 1..Len(G.nodes) :
                                 /\ G.nodes[a] = n
                                 /\ G.data[a].criticality \in {"high", "critical"})

C22_PathsWellFormed ==
    FindOk => \A i \in 1..Len(result.paths) : WellFormed(graph, result.paths[i])

\* a returned path of two edges that passes through a node that is not high-value
C22_Witness ==
    /\ FindOk
    /\ \E i \in 1..Len(result.paths) :
          /\ Len(result.paths[i].edges) = 2
          /\ Len(result.paths[i].critical_nodes) = 2

----------------------------------------------------------------------------
(* C23: for a node n of the graph, calculate_blast_radius(n) reports as         *)
(* critical_reachable the number of nodes reachable from n whose criticality is *)
(* high or critical, which is also the number of high_value_targets; as         *)
(* total_risk the sum of the risk scores of the reachable nodes; as             *)
(* average_risk total_risk / reachable_nodes, and 0 when nothing is reachable.  *)
(* For a node without outgoing edges all four are 0 and high_value_targets is   *)
(* empty.                                                                       *)

BlastOk == result.op = "blast" /\ result.status = "ok" /\ result.error = ""

RiskOver(G, S) ==
    SumSeq([a \in 1..Len(G.nodes) |-> IF G.nodes[a] \in S THEN G.data[a].risk_score ELSE 0])

C23_BlastRadiusFigures ==
    BlastOk =>
        LET reach == ClosureOf(graph, result.arg) \ {result.arg}
            high == {n \in reach : \E a \in 1..Len(graph.nodes) :
                        /\ graph.nodes[a] = n
                        /\ graph.data[a].criticality \in {"high", "critical"}}
        IN  /\ result.critical_reachable = Cardinality(high)
            /\ Cardinality(result.high_value_targets) = result.critical_reachable
            /\ {t.id : t \in result.high_value_targets} = high
            /\ result.total_risk = RiskOver(graph, reach)
            /\ IF reach # {}
               THEN /\ result.average_risk.num = result.total_risk
                    /\ result.average_risk.den = result.reachable_nodes
               ELSE result.average_risk.num = 0
            /\ (\A e \in EdgeSet(graph) : e[1] # result.arg) =>
                  /\ result.reachable_nodes = 0
                  /\ result.critical_reachable = 0
                  /\ result.total_risk = 0
                  /\ result.average_risk.num = 0
                  /\ result.high_value_targets = {}

\* a high and a low node are reached: one high-value target among two reachable nodes
C23_Witness ==
    /\ BlastOk
    /\ result.reachable_nodes = 2
    /\ result.critical_reachable = 1
    /\ \E t \in result.high_value_targets : NodeData(graph, t.id).criticality = "high"
    /\ result.total_risk = 100

----------------------------------------------------------------------------
(* C24: every node the builder emits has the criticality its risk score gives   *)
(* under the default thresholds: critical from 85, high from 70, medium from    *)
(* 50, low below.  (The source documents no override for any node type.)        *)

DefaultTier(risk_score) ==
    IF risk_score >= 85 THEN "critical"
    ELSE IF risk_score >= 70 THEN "high"
    ELSE IF risk_score >= 50 THEN "medium"
    ELSE "low"

C24_CriticalityFromScore ==
    \A i \in 1..Len(graph.nodes) :
        graph.data[i].present =>
            graph.data[i].criticality = DefaultTier(graph.data[i].risk_score)

----------------------------------------------------------------------------
(* C25: whatever accounts were analysed, with a region list or without one,     *)
(* every node of the in-memory graph has a risk score from 0 to 100.            *)

C25_RiskScoreInRange ==
    \A i \in 1..Len(graph.nodes) :
        graph.data[i].present =>
            graph.data[i].risk_score >= 0 /\ graph.data[i].risk_score <= 100

\* a graph built from an account without regions and one with regions
C25_Witness ==
    /\ Populated(result)
    /\ Len(graph.nodes) = 10
    /\ \E a \in AccountsOf(accounts, result.organization_id) : a.regions = <<>>
    /\ \E a \in AccountsOf(accounts, result.organization_id) : a.regions # <<>>
    /\ \E i \in 1..Len(graph.nodes) :
          /\ graph.data[i].type = "ec2_instance"
          /\ graph.data[i].region = "us-east-1"
    /\ \E i \in 1..Len(graph.nodes) : graph.data[i].risk_score = 90

----------------------------------------------------------------------------
(* C26: on a graph without a critical node (the empty graph included) and on a  *)
(* graph with exactly one critical node, find_attack_paths without source and   *)
(* target returns the empty list and raises nothing.                            *)

CriticalCount(G) ==
    Cardinality({a \in 1..Len(G.nodes) : G.data[a].criticality = "critical"})

C26_FewCriticalNoPaths ==
    (result.op = "find" /\ result.source = NoneId /\ result.target = NoneId
        /\ CriticalCount(graph) <= 1) =>
            result.status = "ok" /\ result.paths = <<>>

\* one critical node, with an edge to a high node that a source-only search would find
C26_Witness ==
    /\ result.op = "find" /\ result.source = NoneId /\ result.target = NoneId
    /\ CriticalCount(graph) = 1
    /\ \E e \in EdgeSet(graph) :
          /\ NodeData(graph, e[1]).criticality = "critical"
          /\ NodeData(graph, e[2]).criticality = "high"
    /\ result.trivial
    /\ result.cutoff >= 1
    /\ result.paths = <<>>

----------------------------------------------------------------------------
(* C27: the size thresholds of the blast-radius recommendations are exclusive.  *)
(* The network-segmentation suggestions are given exactly when the source is a  *)
(* compute instance and more than 10 nodes are reachable (not at exactly 10);   *)
(* the zero-trust suggestions are given, for a source of any type, exactly when *)
(* more than 20 nodes are reachable (not at exactly 20).                        *)

C27_ThresholdsExclusive ==
    BlastOk =>
        LET reached == Cardinality(ClosureOf(graph, result.arg) \ {result.arg})
            given == Range(result.recommendations)
        IN  /\ "network_segmentation" \in given <=>
                  (NodeData(graph, result.arg).type = "ec2_instance" /\ reached > 10)
            /\ "zero_trust" \in given <=> reached > 20

\* a compute instance that reaches exactly 20 nodes: segmentation, no zero trust
C27_Witness ==
    /\ BlastOk
    /\ result.node_type = "ec2_instance"
    /\ result.reachable_nodes = 20
    /\ "network_segmentation" \in Range(result.recommendations)
    /\ "zero_trust" \notin Range(result.recommendations)

----------------------------------------------------------------------------
(* C28: in the payload of visualize_graph every node of the graph appears       *)
(* exactly once, with size 20 when its risk score is above 80, 15 when it is    *)
(* above 60 and at most 80, 10 when it is above 40 and at most 60, and 5        *)
(* otherwise (81 gives 20, 80 gives 15); the source and the target of every     *)
(* link are ids of nodes of the payload.                                        *)

C28_VisualizationPayload ==
    result.op = "visualize" =>
        LET ids == {result.nodes[i].id : i \in 1..Len(result.nodes)}
        IN  /\ ids = NodeSet(graph)
            /\ Len(result.nodes) = Cardinality(NodeSet(graph))
            /\ \A i \in 1..Len(result.nodes) :
                  LET risk == result.nodes[i].risk_score
                      size == result.nodes[i].size
                  IN  /\ risk = NodeData(graph, result.nodes[i].id).risk_score
                      /\ size = 20 <=> risk > 80
                      /\ size = 15 <=> (risk > 60 /\ risk <= 80)
                      /\ size = 10 <=> (risk > 40 /\ risk <= 60)
                      /\ size = 5 <=> risk <= 40
            /\ \A k \in 1..Len(result.links) :
                  result.links[k].source \in ids /\ result.links[k].target \in ids
            /\ {<<result.links[k].source, result.links[k].target>> :
                    k \in 1..Len(result.links)} = EdgeSet(graph)

\* a payload with a node of risk 81 drawn at 20 and a node of risk 80 drawn at 15
C28_Witness ==
    /\ result.op = "visualize"
    /\ \E i \in 1..Len(result.nodes) :
          result.nodes[i].risk_score = 81 /\ result.nodes[i].size = 20
    /\ \E i \in 1..Len(result.nodes) :
          result.nodes[i].risk_score = 80 /\ result.nodes[i].size = 15
    /\ result.links # <<>>

----------------------------------------------------------------------------
(* C29: a build_attack_graph call for organization A leaves every durable node  *)
(* that is tagged with another organization as it was: the node stays, keeps    *)
(* its organization tag and its properties, and keeps its relationships, no     *)
(* more and no fewer, also when the accounts of both organizations yield equal  *)
(* resource ids.                                                                *)

RelsAt(store, n) ==
    [r \in {x \in DOMAIN store.rels : x[1] = n \/ x[3] = n} |-> store.rels[r]]

C29_OtherOrganizationsUntouched ==
    [][result'.op = "build" =>
          \A n \in DOMAIN neo4j.nodes :
              neo4j.nodes[n].organization_id # result'.organization_id =>
                  /\ n \in DOMAIN neo4j'.nodes
                  /\ neo4j'.nodes[n] = neo4j.nodes[n]
                  /\ RelsAt(neo4j', n) = RelsAt(neo4j, n)]_vars

----------------------------------------------------------------------------
(* C30: find_attack_paths called with a target and without a source ignores the *)
(* target: it returns what the call without source and target returns on the    *)
(* same graph, paths between critical nodes, which need not end at the target.  *)

IsCritical(G, n) ==
    \E a \in 1..Len(G.nodes) : G.nodes[a] = n /\ G.data[a].criticality = "critical"

C30_TargetAloneIgnored ==
    (result.op = "find" /\ result.source = NoneId /\ result.target # NoneId) =>
        LET automatic == FindAttackPathsOf(graph, NoneId, NoneId, result.cutoff,
                                           result.trivial)
        IN  /\ result.status = automatic.status
            /\ result.exc = automatic.exc
            /\ result.paths = automatic.paths
            /\ \A i \in 1..Len(result.paths) :
                  LET p == result.paths[i].nodes
                  IN  IsCritical(graph, p[1]) /\ IsCritical(graph, p[Len(p)])

\* the target is a node of the graph and a returned path ends somewhere else
C30_Witness ==
    /\ result.op = "find" /\ result.status = "ok"
    /\ result.source = NoneId
    /\ result.target \in NodeSet(graph)
    /\ \E i \in 1..Len(result.paths) :
          LET p == result.paths[i].nodes
          IN  p[Len(p)] # result.target /\ p[1] # result.target

====
